---- MODULE Spec2Model ----
(***************************************************************************)
(* Fire / no-fire training pipelines of Bicep-ML.                          *)
(*                                                                         *)
(*   script = "cloud" : src/cloud/vm/gpu/training/training.py              *)
(*                      (archive synchronizer + directory split)           *)
(*   script = "cnn"   : src/cnn/ml-code/training.py                        *)
(*                      (remote listing + ratio slice + batch provider)    *)
(*                                                                         *)
(*   unit = "main"                     the script runs from its first line *)
(*   unit = "split"                    the two directory-split calls run   *)
(*                                     over a populated data directory     *)
(*   unit = "save_model_to_azure"      the function is called on its own   *)
(*   unit = "AzureImageDataGenerator"  the class is driven on its own      *)
(*                                                                         *)
(* Strings the code inspects character by character (blob names, prefixes) *)
(* are sequences of one-character strings.  Floating point weights are     *)
(* exact rationals <<numerator, denominator>> in lowest terms.             *)
(***************************************************************************)
EXTENDS Integers, Sequences, FiniteSets, TLC

VARIABLES
    script,             \* which training script runs
    unit,               \* what is being run: the script or one of its parts
    pc,                 \* position in the script
    connection_string,  \* value of the Key Vault secret
    calls,              \* calls issued so far, counted by operation
    disk,               \* local class directories, archive file, saved models
    archive,            \* content of the remote dataset archive
    imageNumber,        \* the Image Count Table (dict keyed by class path)
    firstScan,          \* the counts written by the first inspection
    class_weights,      \* {0: weight_for_nofire, 1: weight_for_fire}
    train_ds,           \* files of the tf.data training subset (cloud)
    val_ds,             \* files of the tf.data validation subset (cloud)
    blobs,              \* names of the blobs of the data container (cnn)
    fire_images,        \* keys listed under fire_directory (cnn)
    nofire_images,      \* keys listed under nofire_directory (cnn)
    train_images,       \* train_fire + train_nofire (cnn)
    val_images,         \* val_fire + val_nofire (cnn)
    train_generator,    \* AzureImageDataGenerator(train_images, ...)
    validation_generator, \* AzureImageDataGenerator(val_images, ...)
    batch,              \* what the last __getitem__ call returned
    epochsDone,         \* epochs model.fit has completed
    epoch,              \* the epoch argument of save_model_to_azure
    vm_size,            \* VM label used in the snapshot name
    model_filename,     \* name built by save_model_to_azure
    model_container     \* objects of the model container: name -> content

envVars == <<script, unit, connection_string, archive, blobs>>
syncVars == <<imageNumber, firstScan>>
splitVars == <<train_ds, val_ds, fire_images, nofire_images, train_images, val_images>>
genVars == <<train_generator, validation_generator, batch>>
saveVars == <<epoch, vm_size, model_filename, model_container>>

vars == <<script, unit, pc, connection_string, calls, disk, archive,
          imageNumber, firstScan, class_weights, train_ds, val_ds, blobs,
          fire_images, nofire_images, train_images, val_images, train_generator,
          validation_generator, batch, epochsDone, epoch, vm_size,
          model_filename, model_container>>

----------------------------------------------------------------------------
(* Bounds *)

\* file names one folder of the dataset archive may hold
MaxFiles == 3
\* file names a class directory may hold before the script starts
MaxLocalFiles == 1
\* files of the data directory when the split calls are run on their own
MaxDirFiles == 7
\* largest epoch argument save_model_to_azure is called with on its own
MaxEpochArg == 11
\* blobs the data container may hold under one class directory
MaxBlobs == 2
\* items of the list a batch provider driven on its own is built over
MaxPaths == 3
\* largest batch size of a batch provider driven on its own
MaxBatch == 2
\* blob downloads a batch provider driven on its own may issue
MaxDownloads == 4

----------------------------------------------------------------------------
(* Values *)

None == "None"
ClassDirs == {"fire", "nofire"}
FileNames == 1..MaxFiles
EmptyDict == [k \in {} |-> 0]

\* greatest common divisor, for rationals in lowest terms
RECURSIVE Gcd(_, _)
Gcd(a, b) == IF b = 0 THEN a ELSE Gcd(b, a % b)

Rat(n, d) == LET g == Gcd(n, d) IN <<n \div g, d \div g>>
RatMul(x, y) == Rat(x[1] * y[1], x[2] * y[2])
RatDiv(x, y) == Rat(x[1] * y[2], x[2] * y[1])

\* the call log after n more calls of operation op; "replaced" counts the
\* uploads that wrote over an object that was there
Called(op, n) == [calls EXCEPT ![op] = @ + n]
NoCalls ==
    [op \in {"from_connection_string", "list_blobs", "download_blob", "upload_blob",
             "extractall", "replaced"} |-> 0]

\* where a unit run on its own stops, and where the script goes on
After(next) == IF unit = "main" THEN next ELSE "unit_done"

----------------------------------------------------------------------------
(* Startup: secret resolution *)

\* a check that lets the empty string through
SecretMissingNoneOnly(secret) == secret = None

\* `not connection_string`: None or the empty string
SecretMissing(secret) == secret = None \/ secret = ""

\* `if not connection_string: raise ValueError(...)`, then
\* BlobServiceClient.from_connection_string(connection_string)
CheckConnectionString ==
    /\ pc = "start"
    /\ IF SecretMissing(connection_string)
       THEN /\ pc' = "error_secret"
            /\ calls' = calls
       ELSE /\ pc' = IF script = "cloud" THEN "prepare_dataset" ELSE "fetch_images"
            /\ calls' = Called("from_connection_string", 1)
    /\ UNCHANGED <<envVars, disk, syncVars, class_weights, splitVars,
                   genVars, epochsDone, saveVars>>

----------------------------------------------------------------------------
(* Archive synchronizer: prepare_dataset *)

\* os.makedirs(..., exist_ok=True) for the directories that are missing
makedirs(d, dirs) == [d EXCEPT !.exists = @ \cup dirs]

\* count_images_in_dir: the regular files of the directory, 0 when missing
count_images_in_dir(d, dir_path) ==
    IF dir_path \notin d.exists THEN 0 ELSE Cardinality(d[dir_path])

\* a download decided only when both classes are empty
NeedsDownloadBothEmpty(counts) == counts["fire"] = 0 /\ counts["nofire"] = 0

\* step 2: `if imageNumber[fire_path] == 0 or imageNumber[nofire_path] == 0`
NeedsDownload(counts) == counts["fire"] = 0 \/ counts["nofire"] = 0

\* an exit decided only when both classes are still empty
StillEmptyBoth(counts) == counts["fire"] = 0 /\ counts["nofire"] = 0

\* after the extraction: `if imageNumber[fire_path] == 0 or
\* imageNumber[nofire_path] == 0`
StillEmpty(counts) == counts["fire"] = 0 \/ counts["nofire"] = 0

\* steps 0 and 1: create the directories, count both, decide on the download
PrepareInspect ==
    /\ pc = "prepare_dataset"
    /\ LET made == makedirs(disk, ClassDirs)
           counts == [c \in ClassDirs |-> count_images_in_dir(made, c)]
       IN /\ disk' = made
          /\ imageNumber' = counts
          /\ firstScan' = counts
          /\ pc' = IF NeedsDownload(counts) THEN "download" ELSE "prepared"
    /\ UNCHANGED <<envVars, calls, class_weights, splitVars, genVars,
                   epochsDone, saveVars>>

\* a download that is tried again after a failure
AfterDownloadRetry(outcome) == IF outcome = "ok" THEN "extract" ELSE "download"

\* where the download leaves prepare_dataset: there is no try/except around
\* it, an exception ends the script
AfterDownload(outcome) == IF outcome = "ok" THEN "extract" ELSE "error_transport"

\* step 2.1: open the local file, download_blob(), write every chunk
PrepareDownload ==
    /\ pc = "download"
    /\ calls' = Called("download_blob", 1)
    /\ \E outcome \in {"ok", "open_fails", "chunk_fails"} :
          /\ disk' = [disk EXCEPT !.archive_file =
                         CASE outcome = "ok" -> "complete"
                           [] outcome = "open_fails" -> "empty"
                           [] outcome = "chunk_fails" -> "partial"]
          /\ pc' = AfterDownload(outcome)
    /\ UNCHANGED <<envVars, syncVars, class_weights, splitVars, genVars,
                   epochsDone, saveVars>>

\* an extraction that empties the class directories first
extractallReplacing(d, entries) ==
    [d EXCEPT !.fire = {e[2] : e \in {x \in entries : x[1] = "fire"}},
              !.nofire = {e[2] : e \in {x \in entries : x[1] = "nofire"}}]

\* zip_ref.extractall(data_dir): every entry is written, replacing a file of
\* the same name and leaving the other files of the directory alone
extractall(d, entries) ==
    [d EXCEPT !.fire = @ \cup {e[2] : e \in {x \in entries : x[1] = "fire"}},
              !.nofire = @ \cup {e[2] : e \in {x \in entries : x[1] = "nofire"}}]

\* step 2.2: open the archive and extract it over data_dir
PrepareExtract ==
    /\ pc = "extract"
    /\ IF ~archive.is_zip
       THEN /\ pc' = "error_archive"
            /\ disk' = disk
       ELSE /\ pc' = "reinspect"
            /\ disk' = extractall(disk, archive.entries)
    /\ calls' = IF archive.is_zip THEN Called("extractall", 1) ELSE calls
    /\ UNCHANGED <<envVars, syncVars, class_weights, splitVars,
                   genVars, epochsDone, saveVars>>

\* recount after the extraction; SystemExit when a class is still empty
PrepareReinspect ==
    /\ pc = "reinspect"
    /\ LET counts == [c \in ClassDirs |-> count_images_in_dir(disk, c)]
       IN /\ imageNumber' = counts
          /\ pc' = IF StillEmpty(counts) THEN "system_exit" ELSE "prepared"
    /\ UNCHANGED <<envVars, calls, disk, firstScan, class_weights, splitVars,
                   genVars, epochsDone, saveVars>>

----------------------------------------------------------------------------
(* Class weights *)

\* the weight with one added to the class count
class_weight_smoothed(num_images, total_images) ==
    RatDiv(RatMul(RatDiv(<<1, 1>>, <<num_images + 1, 1>>), <<total_images, 1>>), <<2, 1>>)

\* (1 / num_images) * (total_images) / 2.0
class_weight(num_images, total_images) ==
    RatDiv(RatMul(RatDiv(<<1, 1>>, <<num_images, 1>>), <<total_images, 1>>), <<2, 1>>)

\* the class counts the script reads: the table (cloud), the listings (cnn)
ClassCounts ==
    IF script = "cloud" THEN imageNumber
    ELSE [c \in ClassDirs |-> IF c = "fire" THEN Len(fire_images)
                                            ELSE Len(nofire_images)]

ComputeClassWeights ==
    /\ pc = "prepared"
    /\ LET num_fire_images == ClassCounts["fire"]
           num_nofire_images == ClassCounts["nofire"]
           total_images == num_fire_images + num_nofire_images
       IN IF num_fire_images = 0 \/ num_nofire_images = 0
          THEN /\ pc' = "error_empty_class"
               /\ class_weights' = class_weights
          ELSE /\ pc' = "split"
               /\ class_weights' =
                     [l \in {0, 1} |->
                        IF l = 0 THEN class_weight(num_nofire_images, total_images)
                                 ELSE class_weight(num_fire_images, total_images)]
    /\ UNCHANGED <<envVars, calls, disk, syncVars, splitVars, genVars,
                   epochsDone, saveVars>>


----------------------------------------------------------------------------
(* Seeded-shuffle directory split (cloud): image_dataset_from_directory    *)
(* as the Keras library runs it for the arguments of the two calls         *)

Range(f) == {f[i] : i \in DOMAIN f}

\* the elements of a set of numbers in increasing order
RECURSIVE SortedSeq(_)
SortedSeq(S) ==
    IF S = {} THEN <<>>
    ELSE LET m == CHOOSE x \in S : \A y \in S : x <= y
         IN <<m>> \o SortedSeq(S \ {m})

\* the files of data_dir in index order: class_names order, then file name
index_directory(d) ==
    [i \in 1..Cardinality(d.fire) |-> <<"fire", SortedSeq(d.fire)[i]>>]
      \o [i \in 1..Cardinality(d.nofire) |-> <<"nofire", SortedSeq(d.nofire)[i]>>]

\* int(validation_split * len(samples)) with validation_split = 0.2
num_val_samples(n) == n \div 5

\* Python samples[:-k]: empty for k = 0
SliceHead(samples, k) ==
    IF k = 0 THEN <<>> ELSE SubSeq(samples, 1, Len(samples) - k)

\* Python samples[-k:]: everything for k = 0
SliceTail(samples, k) ==
    IF k = 0 THEN samples ELSE SubSeq(samples, Len(samples) - k + 1, Len(samples))

\* seed=481: the order numpy's RandomState(481).shuffle leaves a list of n
\* entries in; position i of the shuffled list holds the entry that was at
\* (0-based) position Seed481Order[n][i]
Seed481Order ==
    << <<0>>,
       <<1, 0>>,
       <<0, 1, 2>>,
       <<3, 0, 1, 2>>,
       <<0, 4, 2, 1, 3>>,
       <<4, 0, 5, 2, 1, 3>>,
       <<4, 0, 5, 2, 1, 3, 6>>,
       <<5, 0, 4, 2, 7, 1, 3, 6>>,
       <<7, 4, 8, 0, 5, 2, 3, 6, 1>>,
       <<8, 4, 9, 0, 5, 2, 3, 7, 6, 1>> >>

\* shuffle=True: rng = RandomState(seed); rng.shuffle(file_paths), run by
\* index_directory before the subset is sliced off
SeededShuffle(samples) ==
    [i \in 1..Len(samples) |-> samples[Seed481Order[Len(samples)][i] + 1]]

\* train_generator = image_dataset_from_directory(subset='training',
\* validation_split=0.2, seed=481, shuffle=True)
DirectorySplitTraining ==
    /\ pc = "split"
    /\ script = "cloud"
    /\ LET samples == index_directory(disk)
           k == num_val_samples(Len(samples))
           T == Range(SliceHead(SeededShuffle(samples), k))
       IN /\ train_ds' = T
          /\ pc' = IF T = {} THEN "error_no_files" ELSE "split_validation"
    /\ UNCHANGED <<envVars, calls, disk, syncVars, class_weights, val_ds,
                   fire_images, nofire_images, train_images, val_images, genVars,
                   epochsDone, saveVars>>

\* validation_generator = image_dataset_from_directory(subset='validation',
\* validation_split=0.2, seed=481, shuffle=False): the index is not shuffled
DirectorySplitValidation ==
    /\ pc = "split_validation"
    /\ LET samples == index_directory(disk)
           k == num_val_samples(Len(samples))
           V == Range(SliceTail(samples, k))
       IN /\ val_ds' = V
          /\ pc' = IF V = {} THEN "error_no_files" ELSE After("fit")
    /\ UNCHANGED <<envVars, calls, disk, syncVars, class_weights, train_ds,
                   fire_images, nofire_images, train_images, val_images, genVars,
                   epochsDone, saveVars>>

----------------------------------------------------------------------------
(* Remote streaming catalog and ratio-slice split (cnn) *)

FIRE == <<"f", "i", "r", "e">>
NOFIRE == <<"n", "o", "f", "i", "r", "e">>
\* fire_directory and nofire_directory: the class directories of the cloud
\* script, which the configuration of the cnn script names as its prefixes
fire_directory == FIRE
nofire_directory == NOFIRE

\* the blob "<directory>/<i>"
BlobName(directory, i) == directory \o <<"/", ToString(i)>>

\* str.startswith
StartsWith(s, prefix) ==
    Len(s) >= Len(prefix) /\ SubSeq(s, 1, Len(prefix)) = prefix

\* `sub in s` for strings
Contains(s, sub) ==
    \E i \in 1..(Len(s) - Len(sub) + 1) : SubSeq(s, i, i + Len(sub) - 1) = sub

\* every order the elements of a set can be listed in
RECURSIVE Orderings(_)
Orderings(S) ==
    IF S = {} THEN {<<>>}
    ELSE UNION {{<<x>> \o rest : rest \in Orderings(S \ {x})} : x \in S}

\* container_client.list_blobs(name_starts_with=directory): the names that
\* start with the prefix, in the order the service yields them
list_blobs(container, directory) ==
    Orderings({b \in container : StartsWith(b, directory)})

\* fetch_images_from_azure for both directories, then the check that at
\* least one image was found
FetchImages ==
    /\ pc = "fetch_images"
    /\ \E outcome \in {"ok", "transport_error"} :
          IF outcome = "ok"
          THEN /\ \E f \in list_blobs(blobs, fire_directory),
                     n \in list_blobs(blobs, nofire_directory) :
                     /\ fire_images' = f
                     /\ nofire_images' = n
                     /\ pc' = IF Len(f) = 0 /\ Len(n) = 0
                              THEN "error_no_images" ELSE "prepared"
               /\ calls' = Called("list_blobs", 2)
          ELSE /\ \E done \in {1, 2} : calls' = Called("list_blobs", done)
               /\ UNCHANGED <<fire_images, nofire_images>>
               /\ pc' = "error_transport"
    /\ UNCHANGED <<envVars, disk, syncVars, class_weights, train_ds, val_ds,
                   train_images, val_images, genVars, epochsDone, saveVars>>

\* int(0.8 * len(images))
SplitPoint(n) == (8 * n) \div 10

\* images[:k] for 0 <= k <= len(images)
Take(images, k) == SubSeq(images, 1, k)

\* the slice that starts one item late
DropOneMore(images, k) == SubSeq(images, k + 2, Len(images))

\* images[k:] for 0 <= k <= len(images)
Drop(images, k) == SubSeq(images, k + 1, Len(images))

\* a check that fires only when both subsets are empty
SplitIsEmptyBoth(train, val) == Len(train) = 0 /\ Len(val) = 0

\* `if len(train_images) == 0 or len(val_images) == 0`
SplitIsEmpty(train, val) == Len(train) = 0 \/ Len(val) = 0

\* the four slices, the two concatenations and the emptiness check
RatioSliceSplit ==
    /\ pc = "split"
    /\ script = "cnn"
    /\ LET train_fire == Take(fire_images, SplitPoint(Len(fire_images)))
           val_fire == Drop(fire_images, SplitPoint(Len(fire_images)))
           train_nofire == Take(nofire_images, SplitPoint(Len(nofire_images)))
           val_nofire == Drop(nofire_images, SplitPoint(Len(nofire_images)))
       IN /\ train_images' = train_fire \o train_nofire
          /\ val_images' = val_fire \o val_nofire
          /\ pc' = IF SplitIsEmpty(train_images', val_images')
                   THEN "error_empty_split" ELSE "generators"
    /\ UNCHANGED <<envVars, calls, disk, syncVars, class_weights, train_ds, val_ds,
                   fire_images, nofire_images, genVars, epochsDone, saveVars>>

----------------------------------------------------------------------------
(* Batch provider: AzureImageDataGenerator *)

\* batch_size=32 at both constructions of the script
BatchSize == 32

NoGen == [image_paths |-> <<>>, batch_size |-> 0, shuffle |-> FALSE,
          num_samples |-> 0, indexes |-> <<>>]
NoBatch == [index |-> -1, images |-> <<>>, labels |-> <<>>]

\* a shuffle that draws every position anew, with replacement
ShufflesWithReplacement(indexes) == [1..Len(indexes) -> Range(indexes)]

\* np.random.shuffle(indexes): every order of the same entries
Shuffles(indexes) ==
    {[i \in 1..Len(indexes) |-> indexes[p[i]]] : p \in Orderings(1..Len(indexes))}

\* an on_epoch_end that shuffles whatever the flag says
on_epoch_end_unconditional(g) ==
    {[g EXCEPT !.indexes = s] : s \in Shuffles(g.indexes)}

\* on_epoch_end: the generators it can leave
on_epoch_end(g) ==
    IF g.shuffle THEN {[g EXCEPT !.indexes = s] : s \in Shuffles(g.indexes)}
    ELSE {g}

\* __init__: np.arange(num_samples), then on_epoch_end()
NewGenerator(image_paths, batch_size, shuffle) ==
    on_epoch_end([image_paths |-> image_paths, batch_size |-> batch_size,
                  shuffle |-> shuffle, num_samples |-> Len(image_paths),
                  indexes |-> [i \in 1..Len(image_paths) |-> i - 1]])

\* the length that counts the trailing partial batch
GenLenCeil(g) == (g.num_samples + g.batch_size - 1) \div g.batch_size

\* __len__: int(np.floor(num_samples / batch_size))
GenLen(g) == g.num_samples \div g.batch_size

Min(a, b) == IF a <= b THEN a ELSE b

\* a[lo:hi] for 0 <= lo, 0 <= hi: both ends are clipped to len(a)
Slice(a, lo, hi) == SubSeq(a, Min(lo, Len(a)) + 1, Min(hi, Len(a)))

\* the batch taken from image_paths in source order
BatchPathsSourceOrder(g, index) ==
    Slice(g.image_paths, index * g.batch_size, (index + 1) * g.batch_size)

\* the batch whose slice ends one position late
BatchPathsInclusiveEnd(g, index) ==
    LET batch_indexes == Slice(g.indexes, index * g.batch_size,
                               (index + 1) * g.batch_size + 1)
    IN [j \in 1..Len(batch_indexes) |-> g.image_paths[batch_indexes[j] + 1]]

\* batch_paths of __getitem__(index)
BatchPaths(g, index) ==
    LET batch_indexes == Slice(g.indexes, index * g.batch_size,
                               (index + 1) * g.batch_size)
    IN [j \in 1..Len(batch_indexes) |-> g.image_paths[batch_indexes[j] + 1]]

\* load_image_from_azure(blob_name): the decoded content of that blob
load_image_from_azure(blob_name) == <<"image", blob_name>>

\* `1 if 'fire' in p else 0`
Label(p) == IF Contains(p, FIRE) THEN 1 ELSE 0

\* what __getitem__(index) returns
GetItemResult(g, index) ==
    LET batch_paths == BatchPaths(g, index)
    IN [index |-> index,
        images |-> [j \in 1..Len(batch_paths) |-> load_image_from_azure(batch_paths[j])],
        labels |-> [j \in 1..Len(batch_paths) |-> Label(batch_paths[j])]]

\* the two constructions of the script
BuildGenerators ==
    /\ pc = "generators"
    /\ train_generator' \in NewGenerator(train_images, BatchSize, TRUE)
    /\ validation_generator' \in NewGenerator(val_images, BatchSize, FALSE)
    /\ pc' = "fit"
    /\ UNCHANGED <<envVars, calls, disk, syncVars, class_weights, splitVars, batch,
                   epochsDone, saveVars>>

\* a __getitem__ call on the provider; one blob download per item, and a
\* download that fails ends the call with the exception
GetItem ==
    /\ pc = "gen_ready"
    /\ \E index \in 0..(GenLen(train_generator) + 1) :
          LET r == GetItemResult(train_generator, index)
          IN /\ calls.download_blob + Len(r.images) <= MaxDownloads
             /\ \/ /\ batch' = r
                   /\ calls' = Called("download_blob", Len(r.images))
                   /\ pc' = pc
                \/ /\ Len(r.images) > 0
                   /\ batch' = batch
                   /\ \E done \in 1..Len(r.images) :
                         calls' = Called("download_blob", done)
                   /\ pc' = "error_transport"
    /\ UNCHANGED <<envVars, disk, syncVars, class_weights, splitVars,
                   train_generator, validation_generator, epochsDone, saveVars>>

\* an on_epoch_end call on the provider
OnEpochEnd ==
    /\ pc = "gen_ready"
    /\ train_generator' \in on_epoch_end(train_generator)
    /\ UNCHANGED <<envVars, pc, calls, disk, syncVars, class_weights, splitVars,
                   validation_generator, batch, epochsDone, saveVars>>

----------------------------------------------------------------------------
(* Training: model.fit *)

\* epochs=5 in the cloud script
EpochsCloud == 5
\* epochs=10 in the cnn script
EpochsCnn == 10
epochs == IF script = "cloud" THEN EpochsCloud ELSE EpochsCnn

\* f"{save_dir}/model_epoch_1_{epoch:02d}.keras" of the ModelCheckpoint callback
CheckpointName(e) ==
    <<"model_epoch_1_", IF e < 10 THEN "0" \o ToString(e) ELSE ToString(e), ".keras">>

\* a file written into save_dir
WriteSaved(d, name, data) ==
    [d EXCEPT !.saved = [n \in DOMAIN @ \cup {name} |-> IF n = name THEN data ELSE @[n]]]

\* one epoch of model.fit: every batch of the training and of the validation
\* provider is fetched, on_epoch_end of both providers runs and the
\* ModelCheckpoint callback saves the model of that epoch; an exception raised
\* inside fit ends the script
FitEpoch ==
    /\ pc = "fit"
    /\ epochsDone < epochs
    /\ \E outcome \in {"ok", "raises"} :
          IF outcome = "ok"
          THEN /\ epochsDone' = epochsDone + 1
               /\ pc' = pc
               /\ disk' = WriteSaved(disk, CheckpointName(epochsDone + 1), epochsDone + 1)
               /\ train_generator' \in
                     IF script = "cnn" THEN on_epoch_end(train_generator)
                     ELSE {train_generator}
               /\ validation_generator' \in
                     IF script = "cnn" THEN on_epoch_end(validation_generator)
                     ELSE {validation_generator}
               /\ calls' = IF script = "cnn"
                           THEN Called("download_blob",
                                       BatchSize * (GenLen(train_generator)
                                                    + GenLen(validation_generator)))
                           ELSE calls
          ELSE /\ epochsDone' = epochsDone
               /\ pc' = "error_fit"
               /\ UNCHANGED <<train_generator, validation_generator, calls, disk>>
    /\ UNCHANGED <<envVars, syncVars, class_weights, splitVars, batch, saveVars>>

\* model.fit returns; the script calls save_model_to_azure(model, epoch=...)
FitReturns ==
    /\ pc = "fit"
    /\ epochsDone = epochs
    /\ pc' = "save_call"
    /\ UNCHANGED <<envVars, calls, disk, syncVars, class_weights, splitVars,
                   genVars, epochsDone, saveVars>>

----------------------------------------------------------------------------
(* Checkpoint and upload sink: save_model_to_azure *)

\* `if epoch == 5` in the cloud script
TargetEpochCloud == 5
\* `if epoch == 10` in the cnn script
TargetEpochCnn == 10
TargetEpoch == IF script = "cloud" THEN TargetEpochCloud ELSE TargetEpochCnn

\* the literal of the call `save_model_to_azure(model, epoch=...)`
CallEpochCloud == 5
CallEpochCnn == 10

Dates == {"2025-03-01", "2025-03-02"}
ConfiguredVmSize == "Standard_NC6"

\* f"{date_str}-GPU-{vm_size}-epoch-{epoch}.keras" (cloud),
\* f"{date_str}-GPU-{vm_size}.keras" (cnn)
ModelFilename(date_str, vm, e) ==
    IF script = "cloud"
    THEN <<date_str, "-GPU-", vm, "-epoch-", ToString(e), ".keras">>
    ELSE <<date_str, "-GPU-", vm, ".keras">>

\* the serialized model: the number of epochs it was trained for
Snapshot == epochsDone
OldSnapshot == 0 - 1

\* model_blob_client.upload_blob(data, overwrite=...): writes the object;
\* refused (ResourceExistsError) when it exists and overwrite is false
upload_blob(container, name, data, overwrite) ==
    IF name \in DOMAIN container /\ ~overwrite
    THEN [ok |-> FALSE, container |-> container]
    ELSE [ok |-> TRUE,
          container |-> [n \in DOMAIN container \cup {name} |->
                            IF n = name THEN data ELSE container[n]]]

\* the call after model.fit
SaveCall ==
    /\ pc = "save_call"
    /\ epoch' = IF script = "cloud" THEN CallEpochCloud ELSE CallEpochCnn
    /\ pc' = "save_guard"
    /\ UNCHANGED <<envVars, calls, disk, syncVars, class_weights, splitVars,
                   genVars, epochsDone, vm_size, model_filename, model_container>>

\* get_vm_size(): the label for what the instance metadata service answers.
\* A request that fails and a status other than 200 give "unknown_size"; a
\* body that is no JSON object has no .get and the AttributeError escapes.
VmResponses ==
    {[kind |-> "request_exception", status |-> 0, size |-> None],
     [kind |-> "response", status |-> 404, size |-> None],
     [kind |-> "response", status |-> 200, size |-> ConfiguredVmSize],
     [kind |-> "response", status |-> 200, size |-> None],
     [kind |-> "not_an_object", status |-> 200, size |-> None]}

get_vm_size(response) ==
    CASE response.kind = "request_exception" ->
            [raised |-> FALSE, value |-> "unknown_size"]
      [] response.kind = "not_an_object" ->
            [raised |-> TRUE, value |-> None]
      [] response.kind = "response" /\ response.status = 200 ->
            [raised |-> FALSE,
             value |-> IF response.size = None THEN "unknown_size" ELSE response.size]
      [] OTHER -> [raised |-> FALSE, value |-> "unknown_size"]

\* the guard that lets every later epoch through
EpochAtLeast(e) == e >= TargetEpoch

\* `if epoch == 5:` / `if epoch == 10:`
EpochMatches(e) == e = TargetEpoch

\* the guard, the date, the VM label and the file name; any other
\* epoch returns at once
SaveGuard ==
    /\ pc = "save_guard"
    /\ IF EpochMatches(epoch)
       THEN \E date_str \in Dates, response \in VmResponses :
               LET vm == IF script = "cnn" THEN get_vm_size(response)
                         ELSE [raised |-> FALSE, value |-> vm_size]
               IN IF vm.raised
                  THEN /\ pc' = "error_vm_size"
                       /\ UNCHANGED <<vm_size, model_filename>>
                  ELSE /\ vm_size' = vm.value
                       /\ model_filename' = ModelFilename(date_str, vm.value, epoch)
                       /\ pc' = "save_local"
       ELSE /\ pc' = "done"
            /\ UNCHANGED <<vm_size, model_filename>>
    /\ UNCHANGED <<envVars, calls, disk, syncVars, class_weights, splitVars,
                   genVars, epochsDone, epoch, model_container>>

\* model.save(model_filepath): writes save_dir/model_filename or raises
SaveLocal ==
    /\ pc = "save_local"
    /\ \E outcome \in {"ok", "raises"} :
          IF outcome = "ok"
          THEN /\ disk' = WriteSaved(disk, model_filename, Snapshot)
               /\ pc' = "upload"
          ELSE /\ disk' = disk
               /\ pc' = "error_save"
    /\ UNCHANGED <<envVars, calls, syncVars, class_weights, splitVars,
                   genVars, epochsDone, saveVars>>

\* an upload that does not overwrite
UploadKeepsExisting == FALSE

\* the overwrite argument of the upload_blob call
UploadOverwrite == TRUE

\* open(model_filepath, "rb") and upload_blob(data, overwrite=True)
Upload ==
    /\ pc = "upload"
    /\ \E outcome \in {"ok", "transport_error"} :
          LET r == upload_blob(model_container, model_filename,
                               disk.saved[model_filename], UploadOverwrite)
          IN IF outcome = "transport_error"
             THEN /\ model_container' = model_container
                  /\ calls' = Called("upload_blob", 1)
                  /\ pc' = "error_upload"
             ELSE IF ~r.ok
             THEN /\ model_container' = model_container
                  /\ calls' = Called("upload_blob", 1)
                  /\ pc' = "error_exists"
             ELSE /\ model_container' = r.container
                  /\ calls' = [calls EXCEPT
                                 !["upload_blob"] = @ + 1,
                                 !["replaced"] = @ + (IF model_filename \in DOMAIN model_container
                                                      THEN 1 ELSE 0)]
                  /\ pc' = "done"
    /\ UNCHANGED <<envVars, disk, syncVars, class_weights, splitVars, genVars,
                   epochsDone, epoch, vm_size, model_filename>>

----------------------------------------------------------------------------
(* Initial states *)

NoName == <<>>
NoFiles == {}

\* the remote archive: not a zip file, or files 1..k in each class folder
Archives ==
    {[is_zip |-> FALSE, entries |-> {}]} \cup
    {[is_zip |-> TRUE,
      entries |-> ({"fire"} \X (1..kf)) \cup ({"nofire"} \X (1..kn))] :
        kf \in 0..MaxFiles, kn \in 0..MaxFiles}
NoArchive == [is_zip |-> TRUE, entries |-> {}]

\* a local disk: a class directory that does not exist holds no file
Disks ==
    {d \in [exists : SUBSET ClassDirs, fire : SUBSET (1..MaxLocalFiles),
            nofire : SUBSET (1..MaxLocalFiles), archive_file : {"none"},
            saved : {EmptyDict}] :
        \A c \in ClassDirs : c \notin d.exists => d[c] = {}}
NoDisk == [exists |-> {}, fire |-> {}, nofire |-> {}, archive_file |-> "none",
           saved |-> EmptyDict]

\* a populated data directory, as prepare_dataset leaves it
PopulatedDisks ==
    {[exists |-> ClassDirs, fire |-> 1..c[1], nofire |-> 1..c[2],
      archive_file |-> "none", saved |-> EmptyDict] :
        c \in {x \in (1..MaxDirFiles) \X (1..MaxDirFiles) : x[1] + x[2] <= MaxDirFiles}}

\* the data container: blobs 1..k under each class directory
Containers ==
    {{BlobName(fire_directory, i) : i \in 1..kf}
       \cup {BlobName(nofire_directory, i) : i \in 1..kn} :
        kf \in 0..MaxBlobs, kn \in 0..MaxBlobs}

\* the labels a snapshot name of the script can carry
VmLabels == IF script = "cloud" THEN {ConfiguredVmSize}
            ELSE {ConfiguredVmSize, "unknown_size"}

\* the model container: empty, or holding one earlier snapshot
ModelContainers ==
    {EmptyDict} \cup
    {[n \in {ModelFilename(d, vm, TargetEpoch)} |-> OldSnapshot] :
        d \in Dates, vm \in VmLabels}

\* the list a batch provider driven on its own is built over
PathPool ==
    [i \in 1..MaxPaths |->
        BlobName(IF i % 2 = 1 THEN fire_directory ELSE nofire_directory, (i + 1) \div 2)]

InitCommon ==
    /\ calls = IF unit = "main" THEN NoCalls
               ELSE [NoCalls EXCEPT !["from_connection_string"] = 1]
    /\ imageNumber = EmptyDict
    /\ firstScan = EmptyDict
    /\ class_weights = EmptyDict
    /\ train_ds = NoFiles
    /\ val_ds = NoFiles
    /\ fire_images = <<>>
    /\ nofire_images = <<>>
    /\ train_images = <<>>
    /\ val_images = <<>>
    /\ validation_generator = NoGen
    /\ batch = NoBatch
    /\ model_filename = NoName

\* the cloud script from its first line
InitCloudMain ==
    /\ script = "cloud"
    /\ unit = "main"
    /\ pc = "start"
    /\ connection_string \in {None, "", "cs"}
    /\ disk \in Disks
    /\ archive \in Archives
    /\ blobs = {}
    /\ train_generator = NoGen
    /\ epochsDone = 0
    /\ epoch = 0
    /\ vm_size = ConfiguredVmSize
    /\ model_container \in ModelContainers
    /\ InitCommon

\* the cnn script from its first line
InitCnnMain ==
    /\ script = "cnn"
    /\ unit = "main"
    /\ pc = "start"
    /\ connection_string \in {None, "", "cs"}
    /\ disk = NoDisk
    /\ archive = NoArchive
    /\ blobs \in Containers
    /\ train_generator = NoGen
    /\ epochsDone = 0
    /\ epoch = 0
    /\ vm_size = None
    /\ model_container \in ModelContainers
    /\ InitCommon

\* the two image_dataset_from_directory calls over a populated directory
InitSplit ==
    /\ script = "cloud"
    /\ unit = "split"
    /\ pc = "split"
    /\ connection_string = "cs"
    /\ disk \in {d \in PopulatedDisks :
                    Cardinality(d.fire) + Cardinality(d.nofire) <= MaxDirFiles}
    /\ archive = NoArchive
    /\ blobs = {}
    /\ train_generator = NoGen
    /\ epochsDone = 0
    /\ epoch = 0
    /\ vm_size = ConfiguredVmSize
    /\ model_container = EmptyDict
    /\ InitCommon

\* save_model_to_azure(model, epoch) called with any epoch, for a model
\* trained for any number of epochs
InitSave ==
    /\ script \in {"cloud", "cnn"}
    /\ unit = "save_model_to_azure"
    /\ pc = "save_guard"
    /\ connection_string = "cs"
    /\ disk = NoDisk
    /\ archive = NoArchive
    /\ blobs = {}
    /\ train_generator = NoGen
    /\ epochsDone \in 0..epochs
    /\ epoch \in 0..MaxEpochArg
    /\ vm_size = IF script = "cloud" THEN ConfiguredVmSize ELSE None
    /\ model_container \in ModelContainers
    /\ InitCommon

\* a batch provider right after its construction
InitGenerator ==
    /\ script = "cnn"
    /\ unit = "AzureImageDataGenerator"
    /\ pc = "gen_ready"
    /\ connection_string = "cs"
    /\ disk = NoDisk
    /\ archive = NoArchive
    /\ blobs = Range(PathPool)
    /\ \E n \in 0..MaxPaths, batch_size \in 1..MaxBatch, shuffle \in BOOLEAN :
          train_generator \in NewGenerator(SubSeq(PathPool, 1, n), batch_size, shuffle)
    /\ epochsDone = 0
    /\ epoch = 0
    /\ vm_size = None
    /\ model_container = EmptyDict
    /\ InitCommon

Init ==
    \/ InitCloudMain
    \/ InitCnnMain
    \/ InitSplit
    \/ InitSave
    \/ InitGenerator

Next ==
    \/ CheckConnectionString
    \/ PrepareInspect
    \/ PrepareDownload
    \/ PrepareExtract
    \/ PrepareReinspect
    \/ FetchImages
    \/ ComputeClassWeights
    \/ DirectorySplitTraining
    \/ DirectorySplitValidation
    \/ RatioSliceSplit
    \/ BuildGenerators
    \/ GetItem
    \/ OnEpochEnd
    \/ FitEpoch
    \/ FitReturns
    \/ SaveCall
    \/ SaveGuard
    \/ SaveLocal
    \/ Upload

Spec == Init /\ [][Next]_vars

----------------------------------------------------------------------------
(* Positions of the scripts *)

\* positions before prepare_dataset has returned normally
InPrepare == {"start", "error_secret", "prepare_dataset", "download",
              "error_transport", "extract", "error_archive", "reinspect",
              "system_exit"}
\* positions before the class weights have been computed
BeforeWeights == InPrepare \cup {"fetch_images", "error_no_images", "prepared",
                                 "error_empty_class"}
\* positions of a script after its split has passed
PastSplit == {"generators", "fit", "error_fit", "save_call", "save_guard",
              "error_vm_size", "save_local", "error_save", "upload",
              "error_upload", "error_exists", "done"}
CloudMain == script = "cloud" /\ unit = "main"
CnnMain == script = "cnn" /\ unit = "main"
Provider == unit = "AzureImageDataGenerator"

----------------------------------------------------------------------------
(* C1 *)

\* C1: in prepare_dataset the archive is downloaded and extracted if and only
\* if a count of the first inspection is zero: with both counts non-zero no
\* object-store call is made, and with one class empty the download is issued
\* once and, unless the download or opening the archive failed, the whole
\* archive is extracted.
C1_DownloadIffAClassIsEmpty ==
    (CloudMain /\ DOMAIN firstScan # {}) =>
        LET empty == firstScan["fire"] = 0 \/ firstScan["nofire"] = 0
        IN /\ ~empty => /\ calls["download_blob"] = 0
                        /\ calls["list_blobs"] = 0
                        /\ calls["extractall"] = 0
                        /\ disk.archive_file = "none"
           /\ (empty /\ pc # "download") => calls["download_blob"] = 1
           /\ (empty /\ pc \notin {"download", "error_transport", "extract",
                                   "error_archive"})
                 => /\ calls["extractall"] = 1
                    /\ \A e \in archive.entries : e[2] \in disk[e[1]]
           /\ calls["extractall"] <= calls["download_blob"]

\* one class directory was populated, the other empty, and the archive was
\* extracted over both
C1_Witness ==
    /\ CloudMain
    /\ DOMAIN firstScan # {}
    /\ firstScan["fire"] > 0
    /\ firstScan["nofire"] = 0
    /\ calls["extractall"] = 1
    /\ Cardinality(disk.fire) > firstScan["fire"]

----------------------------------------------------------------------------
(* C2 *)

\* C2: when a class directory holds no file after the extraction,
\* prepare_dataset ends in SystemExit, also when the other class is populated;
\* whenever prepare_dataset has returned normally both recorded counts are
\* strictly positive.
C2_EmptyClassAfterExtractionIsFatal ==
    CloudMain =>
        /\ pc \notin InPrepare => (imageNumber["fire"] > 0 /\ imageNumber["nofire"] > 0)
        /\ (calls["extractall"] = 1 /\ pc # "reinspect"
              /\ (disk.fire = {} \/ disk.nofire = {})) => pc = "system_exit"
        /\ pc = "system_exit" => /\ calls["extractall"] = 1
                                 /\ (imageNumber["fire"] = 0 \/ imageNumber["nofire"] = 0)

\* the archive populated the fire class only, and the script exited
C2_Witness ==
    /\ CloudMain
    /\ pc = "system_exit"
    /\ imageNumber["fire"] > 0
    /\ imageNumber["nofire"] = 0

----------------------------------------------------------------------------
(* C3 *)

\* C3: for class counts >= 1 each weight w satisfies w * 2 * count = total
\* (counts 1 and 3 give 2 and 2/3); with a zero count the script ends with an
\* error, no weights are returned and model.fit is never reached.
C3_ClassWeightsBalance ==
    /\ class_weight(1, 4) = <<2, 1>>
    /\ class_weight(3, 4) = <<2, 3>>
    /\ DOMAIN class_weights # {} =>
          LET total == ClassCounts["fire"] + ClassCounts["nofire"]
          IN /\ ClassCounts["fire"] >= 1
             /\ ClassCounts["nofire"] >= 1
             /\ class_weights[1][1] * 2 * ClassCounts["fire"] = total * class_weights[1][2]
             /\ class_weights[0][1] * 2 * ClassCounts["nofire"] = total * class_weights[0][2]
    /\ (unit = "main" /\ DOMAIN ClassCounts # {}
           /\ (ClassCounts["fire"] = 0 \/ ClassCounts["nofire"] = 0))
          => (pc \in BeforeWeights /\ DOMAIN class_weights = {})
    /\ (unit = "main" /\ pc \notin BeforeWeights) => DOMAIN class_weights # {}

\* weights computed for one fire image and three no-fire images
C3_Witness ==
    /\ unit = "main"
    /\ DOMAIN class_weights # {}
    /\ ClassCounts["fire"] = 1
    /\ ClassCounts["nofire"] = 3
    /\ class_weights[1] = <<2, 1>>
    /\ class_weights[0] = <<2, 3>>

----------------------------------------------------------------------------
(* C4 *)

\* the keys of a list, without regard to order
Keys(images) == {images[i] : i \in 1..Len(images)}
\* no key occurs twice in the list
NoDuplicates(images) ==
    \A i, j \in 1..Len(images) : images[i] = images[j] => i = j
TenItems == [i \in 1..10 |-> i]

\* C4: each class list L is cut at floor(0.8 * len(L)): the training part is
\* the keys before the cut, the validation part the keys from the cut on, so
\* training followed by validation is L (8 and 2 items of 10); train_images
\* and val_images are disjoint and hold every listed key exactly once.
C4_RatioSlicePartitions ==
    /\ Len(Take(TenItems, SplitPoint(10))) = 8
    /\ Len(Drop(TenItems, SplitPoint(10))) = 2
    /\ Take(TenItems, SplitPoint(10)) \o Drop(TenItems, SplitPoint(10)) = TenItems
    /\ (CnnMain /\ pc \notin BeforeWeights /\ pc # "split") =>
          LET kf == (4 * Len(fire_images)) \div 5
              kn == (4 * Len(nofire_images)) \div 5
          IN /\ train_images = [i \in 1..(kf + kn) |->
                                  IF i <= kf THEN fire_images[i]
                                  ELSE nofire_images[i - kf]]
             /\ Len(val_images) = Len(fire_images) - kf + Len(nofire_images) - kn
             /\ \A i \in 1..Len(val_images) :
                   val_images[i] = IF i <= Len(fire_images) - kf
                                   THEN fire_images[kf + i]
                                   ELSE nofire_images[kn + i - (Len(fire_images) - kf)]
             /\ NoDuplicates(train_images \o val_images)
             /\ Keys(train_images) \cap Keys(val_images) = {}
             /\ Keys(train_images) \cup Keys(val_images)
                   = Keys(fire_images) \cup Keys(nofire_images)

\* both class lists were cut into a non-empty training and validation part
C4_Witness ==
    /\ CnnMain
    /\ pc = "generators"
    /\ Len(fire_images) = 2
    /\ Len(nofire_images) = 2
    /\ Len(train_images) = 2
    /\ Len(val_images) = 2

----------------------------------------------------------------------------
(* C5 *)

\* C5: the training subset and the validation subset built over the same
\* directory cover exactly the files of the directory and share no file.
C5_DirectorySplitPartitions ==
    (script = "cloud" /\ pc \in {"unit_done", "fit"}) =>
        /\ train_ds \cap val_ds = {}
        /\ train_ds \cup val_ds = Range(index_directory(disk))

----------------------------------------------------------------------------
(* C6 *)

\* C6: for n items and batch size b >= 1 the length of the provider is
\* floor(n / b): length * b <= n < (length + 1) * b (100 items with batch
\* size 32 give 3).
C6_LengthIsFloor ==
    /\ GenLen([NoGen EXCEPT !.num_samples = 100, !.batch_size = 32]) = 3
    /\ \A g \in {train_generator, validation_generator} :
          g.batch_size >= 1 =>
             /\ g.num_samples = Len(g.image_paths)
             /\ GenLen(g) * g.batch_size <= Len(g.image_paths)
             /\ Len(g.image_paths) < (GenLen(g) + 1) * g.batch_size

\* a provider whose item count is no multiple of its batch size
C6_Witness ==
    /\ Provider
    /\ train_generator.num_samples = 3
    /\ train_generator.batch_size = 2
    /\ GenLen(train_generator) = 1

----------------------------------------------------------------------------
(* C7 *)

\* C7: a __getitem__ call with index >= length() returns no batch; it does
\* not return the trailing items.
C7_OutOfRangeIndexRefused ==
    (Provider /\ batch.index >= GenLen(train_generator)) => batch.images = <<>>

----------------------------------------------------------------------------
(* C8 *)

\* C8: for 0 <= index < length() the call returns batch_size items; item j is
\* image_paths[indexes[index * batch_size + j]] under the ordering of that
\* moment, and images and labels follow the same item order.
C8_BatchFollowsCurrentOrdering ==
    \A g \in {train_generator, validation_generator} :
       g.batch_size >= 1 =>
          \A index \in 0..(GenLen(g) - 1) :
             LET r == GetItemResult(g, index)
                 item(j) == g.image_paths[g.indexes[index * g.batch_size + j] + 1]
             IN /\ Len(r.images) = g.batch_size
                /\ Len(r.labels) = g.batch_size
                /\ \A j \in 1..g.batch_size :
                      /\ r.images[j] = <<"image", item(j)>>
                      /\ r.labels[j] = Label(item(j))

\* the second batch of a provider whose ordering is not the source order
C8_Witness ==
    /\ Provider
    /\ pc = "gen_ready"
    /\ train_generator.indexes # [i \in 1..train_generator.num_samples |-> i - 1]
    /\ batch.index = 1
    /\ batch.index < GenLen(train_generator)
    /\ batch = GetItemResult(train_generator, 1)

----------------------------------------------------------------------------
(* C9 *)

\* the files of save_dir that save_model_to_azure wrote
Snapshots == {n \in DOMAIN disk.saved : n[2] = "-GPU-"}

\* C9: save_model_to_azure saves and uploads nothing for an epoch other than
\* the target; in a run of the script the save and the upload happen at most
\* once, only after model.fit has completed the target epoch, exactly once in
\* a run that reaches its end, and never when fit ends early.
C9_CheckpointOnlyAtTargetEpoch ==
    /\ epoch # TargetEpoch =>
          /\ Snapshots = {}
          /\ calls["upload_blob"] = 0
          /\ model_filename = NoName
          /\ \A n \in DOMAIN model_container : model_container[n] = OldSnapshot
    /\ calls["upload_blob"] <= 1
    /\ Cardinality(Snapshots) <= 1
    /\ (unit = "main" /\ (Snapshots # {} \/ calls["upload_blob"] > 0))
          => epochsDone = TargetEpoch
    /\ (unit = "main" /\ pc = "done")
          => /\ Snapshots = {model_filename}
             /\ calls["upload_blob"] = 1
             /\ model_container[model_filename] = TargetEpoch
    /\ pc = "error_fit" => (Snapshots = {} /\ calls["upload_blob"] = 0)

\* a run of the script that trained every epoch, saved and uploaded once
C9_Witness ==
    /\ unit = "main"
    /\ pc = "done"
    /\ epochsDone = TargetEpoch
    /\ calls["upload_blob"] = 1

----------------------------------------------------------------------------
(* C10 *)

\* C10: the model is saved locally before it is uploaded; the object is named
\* like the local file, {date}-GPU-{vm_size}[-epoch-{epoch}].keras; the upload
\* replaces an object of that name; nothing is uploaded when the save fails.
C10_SaveThenUploadSameName ==
    /\ (pc = "upload" \/ calls["upload_blob"] > 0) => model_filename \in DOMAIN disk.saved
    /\ pc = "error_save" =>
          /\ calls["upload_blob"] = 0
          /\ \A n \in DOMAIN model_container : model_container[n] = OldSnapshot
    /\ pc # "error_exists"
    /\ (pc = "done" /\ epoch = TargetEpoch) =>
          /\ model_filename \in DOMAIN model_container
          /\ model_container[model_filename] = disk.saved[model_filename]
          /\ disk.saved[model_filename] = epochsDone
    /\ model_filename # NoName =>
          /\ model_filename[1] \in Dates
          /\ model_filename[2] = "-GPU-"
          /\ model_filename[3] = vm_size
          /\ IF script = "cloud"
             THEN /\ Len(model_filename) = 6
                  /\ model_filename[4] = "-epoch-"
                  /\ model_filename[5] = ToString(epoch)
                  /\ model_filename[6] = ".keras"
             ELSE /\ Len(model_filename) = 4
                  /\ model_filename[4] = ".keras"

\* an upload that wrote over the earlier snapshot of the same name
C10_Witness ==
    /\ pc = "done"
    /\ calls["replaced"] = 1
    /\ model_container[model_filename] = epochsDone

----------------------------------------------------------------------------
(* C11 *)

\* C11: get_vm_size returns a label for whatever the instance metadata
\* service does: "unknown_size" for a request that fails and for a status
\* other than 200, and in no case an exception that stops the checkpoint
\* before the save and the upload.
C11_VmLookupNeverAborts ==
    /\ \A response \in VmResponses :
          (response.kind = "request_exception" \/ response.status # 200)
             => get_vm_size(response) = [raised |-> FALSE, value |-> "unknown_size"]
    /\ pc # "error_vm_size"

----------------------------------------------------------------------------
(* C12 *)

\* C12: a split that leaves the training or the validation subset empty ends
\* the run with an error before a batch provider is built and before
\* model.fit runs; past the split both subsets hold at least one item.
C12_EmptySubsetIsFatal ==
    /\ CnnMain =>
          /\ pc \in PastSplit => (train_images # <<>> /\ val_images # <<>>)
          /\ train_generator # NoGen => (train_images # <<>> /\ val_images # <<>>)
          /\ pc = "error_empty_split" =>
                /\ train_images = <<>> \/ val_images = <<>>
                /\ train_generator = NoGen
                /\ validation_generator = NoGen
                /\ epochsDone = 0
    /\ (script = "cloud" /\ unit \in {"main", "split"}) =>
          /\ pc \in PastSplit \cup {"unit_done"} => (train_ds # {} /\ val_ds # {})
          /\ pc = "split_validation" => train_ds # {}
          /\ pc = "error_no_files" =>
                /\ train_ds = {} \/ val_ds = {}
                /\ epochsDone = 0
    /\ (unit = "main" /\ epochsDone > 0) => pc \in PastSplit

\* one blob per class: the training part of the ratio slice is empty and the
\* cnn script has stopped
C12_Witness ==
    /\ CnnMain
    /\ pc = "error_empty_split"
    /\ Len(fire_images) = 1
    /\ Len(nofire_images) = 1
    /\ train_images = <<>>
    /\ Len(val_images) = 2

----------------------------------------------------------------------------
(* C13 *)

\* C13: a failure while the dataset archive is downloaded ends the run: the
\* download is issued at most once, nothing is extracted or counted again
\* after the failure, and neither the class weights nor the training are
\* reached.
C13_DownloadFailureIsFatal ==
    CloudMain =>
        /\ calls["download_blob"] <= 1
        /\ disk.archive_file \in {"empty", "partial"} => pc = "error_transport"
        /\ pc = "error_transport" =>
              /\ disk.archive_file \in {"empty", "partial"}
              /\ calls["download_blob"] = 1
              /\ calls["extractall"] = 0
              /\ imageNumber = firstScan
              /\ \A c \in ClassDirs : count_images_in_dir(disk, c) = firstScan[c]
              /\ DOMAIN class_weights = {}
              /\ train_ds = {}
              /\ val_ds = {}
              /\ epochsDone = 0

\* the download broke off after some chunks had been written
C13_Witness ==
    /\ CloudMain
    /\ pc = "error_transport"
    /\ disk.archive_file = "partial"
    /\ calls["download_blob"] = 1

----------------------------------------------------------------------------
(* C14 *)

\* C14: a count recorded in imageNumber is never lowered within a run: the
\* value written after the extraction is at least the value of the first
\* scan, no entry is removed, and only the two scans of prepare_dataset
\* write the table.
C14_CountsNeverDecrease ==
    /\ [](DOMAIN firstScan # {} =>
            \A c \in ClassDirs : imageNumber[c] >= firstScan[c])
    /\ [][/\ DOMAIN imageNumber \subseteq DOMAIN imageNumber'
          /\ \A c \in DOMAIN imageNumber : imageNumber'[c] >= imageNumber[c]
          /\ imageNumber' # imageNumber =>
                (script = "cloud" /\ pc \in {"prepare_dataset", "reinspect"})]_vars

\* the re-scan wrote a larger fire count than the first scan
C14_Witness ==
    /\ CloudMain
    /\ pc = "prepared"
    /\ firstScan["fire"] = 1
    /\ firstScan["nofire"] = 0
    /\ imageNumber["fire"] > 1
    /\ imageNumber["nofire"] > 0

----------------------------------------------------------------------------
(* C15 *)

\* C15: the connection string is checked before anything else runs: with a
\* missing or empty secret the script stops with an error at its start, and
\* no object-store client is created and no list, download or upload call is
\* made unless the connection string was found non-empty.
C15_SecretCheckedFirst ==
    unit = "main" =>
        /\ pc = "start" => calls = NoCalls
        /\ pc = "error_secret" <=> (pc # "start" /\ connection_string \in {None, ""})
        /\ connection_string \in {None, ""} =>
              /\ calls = NoCalls
              /\ DOMAIN imageNumber = {}
              /\ fire_images = <<>>
              /\ nofire_images = <<>>
              /\ DOMAIN class_weights = {}
              /\ epochsDone = 0
              /\ model_filename = NoName
        /\ (\E op \in DOMAIN calls : calls[op] > 0) =>
              /\ connection_string \notin {None, ""}
              /\ calls["from_connection_string"] = 1

\* the secret resolved to the empty string and the script stopped
C15_Witness ==
    /\ unit = "main"
    /\ pc = "error_secret"
    /\ connection_string = ""
    /\ calls = NoCalls

----------------------------------------------------------------------------
(* C16 *)

\* the ordering np.arange(num_samples)
Identity(g) == [i \in 1..g.num_samples |-> i - 1]

\* C16: a provider built with shuffle=False keeps the ordering 0..n-1 through
\* its construction and every on_epoch_end, so __getitem__(i) returns
\* image_paths[i*batch_size : (i+1)*batch_size] in source order; a step
\* changes the ordering of a provider only when it was built with
\* shuffle=True.
C16_UnshuffledKeepsSourceOrder ==
    /\ [](\A g \in {train_generator, validation_generator} :
            (g.batch_size >= 1 /\ ~g.shuffle) =>
               /\ g.indexes = Identity(g)
               /\ \A index \in 0..GenLen(g) :
                     BatchPaths(g, index)
                        = Slice(g.image_paths, index * g.batch_size,
                                (index + 1) * g.batch_size))
    /\ [][/\ (train_generator.batch_size >= 1
               /\ train_generator'.indexes # train_generator.indexes)
              => train_generator.shuffle
          /\ (validation_generator.batch_size >= 1
               /\ validation_generator'.indexes # validation_generator.indexes)
              => validation_generator.shuffle]_vars

\* the validation provider of the cnn script after two epochs of model.fit
C16_Witness ==
    /\ CnnMain
    /\ pc = "fit"
    /\ epochsDone = 2
    /\ ~validation_generator.shuffle
    /\ validation_generator.num_samples = 2
    /\ validation_generator.indexes = <<0, 1>>

----------------------------------------------------------------------------
(* C17 *)

\* C17: the ordering of a provider is a permutation of 0..num_samples-1 after
\* its construction and after any on_epoch_end and __getitem__ calls: every
\* entry is a position of image_paths and no position occurs twice; a
\* __getitem__ call leaves the ordering as it was.
C17_IndexesIsPermutation ==
    /\ [](\A g \in {train_generator, validation_generator} :
            /\ g.num_samples = Len(g.image_paths)
            /\ Len(g.indexes) = g.num_samples
            /\ \A i \in 1..Len(g.indexes) :
                  g.indexes[i] \in 0..(Len(g.image_paths) - 1)
            /\ \A i, j \in 1..Len(g.indexes) :
                  g.indexes[i] = g.indexes[j] => i = j)
    /\ [][(Provider /\ (batch' # batch \/ calls' # calls))
             => train_generator' = train_generator]_vars

\* a batch fetched from a provider of three items whose ordering was shuffled
C17_Witness ==
    /\ Provider
    /\ train_generator.shuffle
    /\ train_generator.num_samples = 3
    /\ train_generator.indexes = <<2, 0, 1>>
    /\ batch.index = 0
    /\ batch.images # <<>>

----------------------------------------------------------------------------
(* C18 *)

\* C18: with the prefixes 'fire' and 'nofire', __getitem__ labels every key
\* listed under the no-fire prefix 0 and every key listed under the fire
\* prefix 1, the classes class_weights[0] and class_weights[1] stand for.
C18_LabelMatchesClassOfOrigin ==
    /\ \A j \in 1..Len(batch.images) :
          LET p == batch.images[j][2]
          IN /\ StartsWith(p, nofire_directory) => batch.labels[j] = 0
             /\ StartsWith(p, fire_directory) => batch.labels[j] = 1
    /\ \A i \in 1..Len(nofire_images) : Label(nofire_images[i]) = 0
    /\ \A i \in 1..Len(fire_images) : Label(fire_images[i]) = 1

----------------------------------------------------------------------------
(* C19 *)

\* the items of batch index of provider g under its present ordering
Served(g, index) == Range(BatchPaths(g, index))

\* the batches 0 .. length-1 of provider g under its present ordering hold
\* batch_size items each, share no item, serve length * batch_size items
\* and leave num_samples mod batch_size items out
EpochPartition(g) ==
    LET all == UNION {Served(g, index) : index \in 0..(GenLen(g) - 1)}
    IN /\ \A index \in 0..(GenLen(g) - 1) :
             /\ Len(BatchPaths(g, index)) = g.batch_size
             /\ Cardinality(Served(g, index)) = g.batch_size
       /\ \A i, j \in 0..(GenLen(g) - 1) :
             i # j => Served(g, i) \cap Served(g, j) = {}
       /\ Cardinality(all) = GenLen(g) * g.batch_size
       /\ all \subseteq Range(g.image_paths)
       /\ Cardinality(Range(g.image_paths) \ all) = g.num_samples % g.batch_size

\* a provider of five items with batch size 2 in a shuffled ordering
FiveItems ==
    [image_paths |-> [i \in 1..5 |-> BlobName(fire_directory, i)], batch_size |-> 2,
     shuffle |-> TRUE, num_samples |-> 5, indexes |-> <<3, 0, 4, 1, 2>>]

\* C19: under one ordering (between two on_epoch_end calls) the batches
\* __getitem__(0) .. __getitem__(length-1) are pairwise disjoint, hold
\* batch_size items each and serve length * batch_size items of the list;
\* num_samples mod batch_size items are in no batch.
C19_EpochBatchesDisjoint ==
    /\ EpochPartition(FiveItems)
    /\ \A g \in {train_generator, validation_generator} :
          g.batch_size >= 1 => EpochPartition(g)

\* a shuffled provider of three items with batch size 2: one batch, one item
\* left out; and the batch that was fetched is that one
C19_Witness ==
    /\ Provider
    /\ train_generator.num_samples = 3
    /\ train_generator.batch_size = 2
    /\ train_generator.indexes = <<1, 2, 0>>
    /\ batch.index = 0
    /\ Len(batch.images) = 2

----------------------------------------------------------------------------
(* C20 *)

\* C20: once the emptiness check after the split has passed, the training and
\* the validation provider (batch size 32) each have a length of at least 1,
\* so model.fit gets a training and a validation batch in every epoch.
C20_ProvidersHaveABatch ==
    (CnnMain /\ pc \in PastSplit /\ train_generator # NoGen) =>
        /\ train_generator.batch_size = BatchSize
        /\ validation_generator.batch_size = BatchSize
        /\ GenLen(train_generator) >= 1
        /\ GenLen(validation_generator) >= 1

====
